---- MODULE Spec2Model ----
(***************************************************************************)
(* Model of zwave_module (src/src/main.rs): the scan run of main (config,   *)
(* instant scan, scheduled scan loop, result file) and the interval merger *)
(* merge_intervals, run step by step on bounded argument lists.            *)
(***************************************************************************)
EXTENDS Integers, Sequences, FiniteSets, TLC

(* ------------------------------ bounds --------------------------------- *)

\* Longest argument list handed to merge_intervals.
MaxLen == 3

\* Stand-in for u64::MAX: start and end are u64, modelled as 0..U64Max with
\* the arithmetic of `last.1 + 5` taken modulo U64Max + 1.
U64Max == 15

\* Most samples one acquisition returns.
MaxSamples == 2

\* Largest scan_duration and start_after_duration of a config.json.
MaxScanDuration == 2
MaxStartAfter == 1

\* Resolution of the clock: ticks of Instant per second.
TicksPerSec == 2

\* Most ticks an acquisition runs past its duration (the last rx() returns
\* after the deadline), and most ticks that pass between the two
\* Instant::now() reads of the loop head.
MaxLag == 1

(* ------------------------- program constants --------------------------- *)

\* The literal 5 of `start <= last.1 + 5`.
GAP == 5

\* The detection threshold 50.0, in thousandths of a dB.
Threshold == 50000

\* 868_400_000 Hz.
FrequencyHz == 868400000

\* Duration::from_secs(5) of the instant scan, Duration::from_secs(1) of a
\* window of the scheduled scan.
InstantSecs == 5
WindowSecs == 1

\* The largest u8.
MaxSample == 255

(* --------------------------- merge_intervals --------------------------- *)

\* The time values the argument lists are drawn from: two neighbours at the
\* origin, the two values on either side of the merge test
\* `start <= end + 5` against them, and the largest u64, whose `+ 5`
\* overflows.
TimeVals == {0, 1, GAP + 1, GAP + 2, U64Max}

\* A (u64, u64) tuple of the Vec<(u64, u64)> argument: an interval, whose
\* start is at most its end (the caller pushes (elapsed, elapsed + 1)).
IntervalVals == { iv \in TimeVals \X TimeVals : iv[1] <= iv[2] }

\* `last.1 + 5` overflows u64.
AddOverflows(a, b) == a + b > U64Max

\* u64 addition as a build without overflow checks computes it (wrapping).
WrappingAdd(a, b) == (a + b) % (U64Max + 1)

\* u64::max.
MaxU64(a, b) == IF a >= b THEN a ELSE b

\* The order sort_unstable_by(|a, b| a.0.cmp(&b.0)) leaves: ascending start.
SortedByStart(s) == \A i \in 1..(Len(s) - 1) : s[i][1] <= s[i + 1][1]

\* The rearrangements of the vector v.
Rearrangements(v) ==
    { [i \in 1..Len(v) |-> v[p[i]]] : p \in Permutations(1..Len(v)) }

\* Faulty variant: the sort left out.
SortUnstableByStart_Unsorted(v) == {v}
\* Every outcome of sort_unstable_by on v: a rearrangement of v that is
\* ascending by start; elements with equal start may land in any order.
SortUnstableByStart(v) == { s \in Rearrangements(v) : SortedByStart(s) }

\* The test of the loop body: start <= last.1 + 5.
WithinGap(start, lastEnd) == start <= WrappingAdd(lastEnd, GAP)

\* Faulty variant of the loop body: last.1 = end, without the max.
LoopBody_NoMax(mrg, iv, checks) ==
    LET n    == Len(mrg)
        last == mrg[n]
    IN  IF checks /\ AddOverflows(last[2], GAP)
        THEN [panicked |-> TRUE, merged |-> mrg]
        ELSE IF WithinGap(iv[1], last[2])
             THEN [panicked |-> FALSE,
                   merged   |-> [mrg EXCEPT ![n] = <<last[1], iv[2]>>]]
             ELSE [panicked |-> FALSE, merged |-> Append(mrg, iv)]
\* One iteration of `for &(start, end) in &intervals[1..]` on the merged
\* vector: a panic when the addition overflows in a build with overflow
\* checks, else the last entry extended in place or the interval pushed.
LoopBody(mrg, iv, checks) ==
    LET n    == Len(mrg)
        last == mrg[n]
    IN  IF checks /\ AddOverflows(last[2], GAP)
        THEN [panicked |-> TRUE, merged |-> mrg]
        ELSE IF WithinGap(iv[1], last[2])
             THEN [panicked |-> FALSE,
                   merged   |-> [mrg EXCEPT ![n] = <<last[1], MaxU64(last[2], iv[2])>>]]
             ELSE [panicked |-> FALSE, merged |-> Append(mrg, iv)]

\* The whole loop from position i of the sorted vector s.
RECURSIVE MergeLoop(_, _, _, _)
MergeLoop(s, i, mrg, checks) ==
    IF i > Len(s)
    THEN [panicked |-> FALSE, merged |-> mrg]
    ELSE LET r == LoopBody(mrg, s[i], checks)
         IN  IF r.panicked THEN r ELSE MergeLoop(s, i + 1, r.merged, checks)

\* Every outcome of merge_intervals(v): one per outcome of the sort.
MergeIntervals(v, checks) ==
    IF v = <<>>
    THEN { [panicked |-> FALSE, merged |-> <<>>] }
    ELSE { MergeLoop(s, 2, <<s[1]>>, checks) : s \in SortUnstableByStart(v) }


(* ----------------------------- options --------------------------------- *)

\* Option<T>.
None == <<"None">>
Some(v) == <<"Some", v>>
IsSome(o) == o[1] = "Some"
Unwrap(o) == o[2]

(* --------------------------- analyze_samples --------------------------- *)

\* floor(1000 * 20 * log10(s)) for s = 1..255: the f64 value of
\* 20.0 * sample_f64.log10(), in thousandths of a dB.
Log10x20 ==
    << 
           0,  6020,  9542, 12041, 13979, 15563, 16901, 18061,
       19084, 20000, 20827, 21583, 22278, 22922, 23521, 24082,
       24608, 25105, 25575, 26020, 26444, 26848, 27234, 27604,
       27958, 28299, 28627, 28943, 29247, 29542, 29827, 30102,
       30370, 30629, 30881, 31126, 31364, 31595, 31821, 32041,
       32255, 32464, 32669, 32869, 33064, 33255, 33441, 33624,
       33803, 33979, 34151, 34320, 34485, 34647, 34807, 34963,
       35117, 35268, 35417, 35563, 35706, 35847, 35986, 36123,
       36258, 36390, 36521, 36650, 36776, 36901, 37025, 37146,
       37266, 37384, 37501, 37616, 37729, 37841, 37952, 38061,
       38169, 38276, 38381, 38485, 38588, 38689, 38790, 38889,
       38987, 39084, 39180, 39275, 39369, 39462, 39554, 39645,
       39735, 39824, 39912, 40000, 40086, 40172, 40256, 40340,
       40423, 40506, 40587, 40668, 40748, 40827, 40906, 40984,
       41061, 41138, 41213, 41289, 41363, 41437, 41510, 41583,
       41655, 41727, 41798, 41868, 41938, 42007, 42076, 42144,
       42211, 42278, 42345, 42411, 42477, 42542, 42606, 42670,
       42734, 42797, 42860, 42922, 42984, 43045, 43106, 43167,
       43227, 43287, 43346, 43405, 43463, 43521, 43579, 43636,
       43693, 43750, 43806, 43862, 43917, 43973, 44027, 44082,
       44136, 44190, 44243, 44296, 44349, 44402, 44454, 44506,
       44557, 44608, 44659, 44710, 44760, 44810, 44860, 44910,
       44959, 45008, 45057, 45105, 45153, 45201, 45249, 45296,
       45343, 45390, 45436, 45483, 45529, 45575, 45620, 45666,
       45711, 45756, 45800, 45845, 45889, 45933, 45977, 46020,
       46063, 46107, 46149, 46192, 46235, 46277, 46319, 46361,
       46402, 46444, 46485, 46526, 46567, 46608, 46648, 46689,
       46729, 46769, 46808, 46848, 46887, 46927, 46966, 47004,
       47043, 47082, 47120, 47158, 47196, 47234, 47272, 47309,
       47347, 47384, 47421, 47458, 47494, 47531, 47567, 47604,
       47640, 47676, 47712, 47747, 47783, 47818, 47853, 47889,
       47923, 47958, 47993, 48028, 48062, 48096, 48130 >>

\* Faulty variant: the amplitude itself, without the logarithm.
SampleStrength_Raw(sample) == sample * 1000
\* The closure of analyze_samples: 20 * log10(sample) for a positive sample,
\* 0.0 for sample 0.
SampleStrength(sample) == IF sample > 0 THEN Log10x20[sample] ELSE 0

\* analyze_samples: one strength per sample, in order.
AnalyzeSamples(samples) == [i \in 1..Len(samples) |-> SampleStrength(samples[i])]

\* Faulty variant: a maximum folded from a large start value, so that an
\* empty vector has one.
MaxBy_NoEmptyCheck(strengths) ==
    IF strengths = <<>>
    THEN Some(Threshold * 2)
    ELSE Some(CHOOSE v \in { strengths[i] : i \in 1..Len(strengths) } :
                 \A i \in 1..Len(strengths) : v >= strengths[i])
\* iter().max_by(partial_cmp): None for an empty vector, else the maximum.
MaxBy(strengths) ==
    IF strengths = <<>>
    THEN None
    ELSE Some(CHOOSE v \in { strengths[i] : i \in 1..Len(strengths) } :
                 \A i \in 1..Len(strengths) : v >= strengths[i])

\* strength > 50.0
Detected(strength) == strength > Threshold

\* f64::max.
MaxF64(a, b) == IF a >= b THEN a ELSE b

(* ------------------------------ scan_freq ------------------------------ *)

\* The bytes an acquisition can return.
SampleVals == {0, 100, MaxSample}
SampleSeqs == UNION { [1..n -> SampleVals] : n \in 0..MaxSamples }

\* What a scan_freq call that does not panic returns and how long it runs:
\* rx() is called until start_time.elapsed() >= duration, so at least the
\* duration.
ScanFreqOutcomes(secs) ==
    { [samples |-> s, took |-> t] :
        s \in SampleSeqs,
        t \in (secs * TicksPerSec)..(secs * TicksPerSec + MaxLag) }

(* ----------------------- run_scan_over_duration ------------------------ *)

\* Duration::as_secs of a time in ticks.
AsSecs(t) == t \div TicksPerSec

\* while Instant::now().duration_since(scan_start_time) < from_secs(scan_duration)
WhileCondition(elapsed, scan_duration) == elapsed < scan_duration * TicksPerSec

\* Faulty variant: the loop without its break.
ShouldBreak_Never(elapsed, scan_duration) == FALSE
\* if elapsed + from_secs(1) > from_secs(scan_duration) { break; }
ShouldBreak(elapsed, scan_duration) ==
    elapsed + WindowSecs * TicksPerSec > scan_duration * TicksPerSec

\* Faulty variant: the error swallowed and the loop resumed.
OnDeviceError_Continue == "while"
\* Where control goes when an expect() on the radio fails: the panic ends
\* the process.
OnDeviceError == "panicked"

\* format!("{}-{}", start, end)
FormatInterval(iv) == ToString(iv[1]) \o "-" \o ToString(iv[2])

\* .collect::<Vec<_>>().join(",")
RECURSIVE Join(_, _)
Join(strs, sep) ==
    IF strs = <<>> THEN ""
    ELSE IF Len(strs) = 1 THEN strs[1]
    ELSE strs[1] \o sep \o Join(Tail(strs), sep)

\* durations_str of a merged list.
DurationsStr(mrg) == Join([i \in 1..Len(mrg) |-> FormatInterval(mrg[i])], ",")

\* The body of `if let Some(&strength) = ...max_by(..)` on the accumulators
\* signal_detected, max_strength and intervals, for a window whose strongest
\* strength is wmax and which ended `elapsed` seconds into the scan.
WindowUpdate(acc, wmax, elapsed) ==
    IF IsSome(wmax) /\ Detected(Unwrap(wmax))
    THEN [signal_detected |-> TRUE,
          max_strength    |-> MaxF64(acc.max_strength, Unwrap(wmax)),
          intervals       |-> Append(acc.intervals, <<elapsed, elapsed + 1>>)]
    ELSE acc

\* The SignalData of the scheduled scan.
ScheduledResult(detected, maxs, mrg) ==
    [frequency          |-> <<FrequencyHz, 1000000>>,
     is_signal_detected |-> detected,
     max_signal_strength |-> maxs,
     zwave_durations    |-> DurationsStr(mrg)]

\* The SignalData of the instant scan, from the maximum over the batch.
InstantResultOf(bmax) ==
    [frequency          |-> <<FrequencyHz, 1>>,
     is_signal_detected |-> IF IsSome(bmax) THEN Detected(Unwrap(bmax)) ELSE FALSE,
     max_signal_strength |-> IF IsSome(bmax) THEN Unwrap(bmax) ELSE 0,
     zwave_durations    |-> "5"]

\* A Config read from config.json.
Configs ==
    [instant_scan : BOOLEAN,
     start_after_duration : 0..MaxStartAfter,
     scan_duration : 0..MaxScanDuration]

\* A result file: absent, created and empty, or holding the serialized data.
Absent == <<"Absent">>
Created == <<"Created">>
Written(data) == <<"Written", data>>

(* ------------------------------- state --------------------------------- *)

VARIABLES
    overflow_checks,  \* the build panics on u64 overflow (debug) or wraps (release)
    \* ---- the scan run (main)
    pc,               \* position of the run
    config,           \* the Config of config.json
    countdown,        \* i of the countdown loop
    now,              \* ticks since scan_start_time
    elapsed_at_check, \* the elapsed time the `if ... break` test last read
    raw_samples,      \* the samples of the acquisition under analysis
    intervals,        \* the raw interval list
    max_strength,     \* the running maximum
    signal_detected,  \* the detection flag
    result,           \* the SignalData, once assembled
    files,            \* zwave_instantdata.json and zwave_scheduledata.json
    attempts,         \* HackRfOne::new() calls so far
    acquired,         \* scan_freq calls that returned
    window_maxes,     \* the maximum strength of every window analysed so far
    device_failed,    \* an expect() on the radio has failed
    \* ---- merge_intervals run on its own
    mpc,              \* position inside merge_intervals
    intervals_arg,    \* the `intervals` parameter, sorted in place
    merged,           \* the `merged` vector
    idx,              \* position of the for loop in intervals
    pass,             \* 1: merge(x), 2: merge(merge(x))
    input,            \* x, the argument of the first call
    out1              \* merge(x), the value the first call returned

svars == <<pc, config, countdown, now, elapsed_at_check, raw_samples, intervals,
           max_strength, signal_detected, result, files, attempts, acquired,
           window_maxes, device_failed>>

mvars == <<mpc, intervals_arg, merged, idx, pass, input, out1>>

vars == <<overflow_checks, svars, mvars>>

\* The scan run before main has done anything.
ScanIdle ==
    /\ config = [instant_scan |-> FALSE, start_after_duration |-> 0, scan_duration |-> 0]
    /\ countdown = 0
    /\ now = 0
    /\ elapsed_at_check = 0
    /\ raw_samples = <<>>
    /\ intervals = <<>>
    /\ max_strength = 0
    /\ signal_detected = FALSE
    /\ result = None
    /\ files = [instant |-> Absent, scheduled |-> Absent]
    /\ attempts = 0
    /\ acquired = 0
    /\ window_maxes = <<>>
    /\ device_failed = FALSE


(* ------------------------------ the scan run --------------------------- *)

Init ==
    /\ overflow_checks \in BOOLEAN
    /\ pc = "load_config"
    /\ ScanIdle
    /\ mpc = "idle"
    /\ intervals_arg = <<>>
    /\ merged = <<>>
    /\ idx = 0
    /\ pass = 1
    /\ input = <<>>
    /\ out1 = <<>>

\* let config = load_config("config.json")?; then the branch on instant_scan
\* and, for the scheduled scan, the start of the countdown.
LoadConfig ==
    /\ pc = "load_config"
    /\ \E c \in Configs :
          /\ config' = c
          /\ countdown' = c.start_after_duration
          /\ pc' = IF c.instant_scan THEN "i_open" ELSE "countdown"
    /\ UNCHANGED <<overflow_checks, now, elapsed_at_check, raw_samples, intervals,
                   max_strength, signal_detected, result, files, attempts, acquired,
                   window_maxes, device_failed, mvars>>

\* load_config returns Err: main returns it.
LoadConfigFails ==
    /\ pc = "load_config"
    /\ pc' = "error"
    /\ UNCHANGED <<overflow_checks, config, countdown, now, elapsed_at_check,
                   raw_samples, intervals, max_strength, signal_detected, result,
                   files, attempts, acquired, window_maxes, device_failed, mvars>>

\* for i in (1..=start_after_duration).rev() { sleep(1 s) }
CountdownSleep ==
    /\ pc = "countdown"
    /\ countdown >= 1
    /\ countdown' = countdown - 1
    /\ UNCHANGED <<overflow_checks, pc, config, now, elapsed_at_check, raw_samples,
                   intervals, max_strength, signal_detected, result, files, attempts,
                   acquired, window_maxes, device_failed, mvars>>

\* scan_start_time = Instant::now(); the accumulators are initialised.
StartScan ==
    /\ pc = "countdown"
    /\ countdown = 0
    /\ now' = 0
    /\ intervals' = <<>>
    /\ max_strength' = 0
    /\ signal_detected' = FALSE
    /\ pc' = "while"
    /\ UNCHANGED <<overflow_checks, config, countdown, elapsed_at_check, raw_samples,
                   result, files, attempts, acquired, window_maxes, device_failed,
                   mvars>>

\* The while condition.
WhileCheck ==
    /\ pc = "while"
    /\ pc' = IF WhileCondition(now, config.scan_duration) THEN "if_break" ELSE "merge"
    /\ UNCHANGED <<overflow_checks, config, countdown, now, elapsed_at_check,
                   raw_samples, intervals, max_strength, signal_detected, result,
                   files, attempts, acquired, window_maxes, device_failed, mvars>>

\* The second Instant::now() and the break test.
IfBreak ==
    /\ pc = "if_break"
    /\ \E d \in 0..MaxLag :
          /\ now' = now + d
          /\ elapsed_at_check' = now + d
          /\ pc' = IF ShouldBreak(now + d, config.scan_duration) THEN "merge" ELSE "open"
    /\ UNCHANGED <<overflow_checks, config, countdown, raw_samples, intervals,
                   max_strength, signal_detected, result, files, attempts, acquired,
                   window_maxes, device_failed, mvars>>

\* HackRfOne::new() succeeds.
OpenRadio ==
    /\ pc = "open"
    /\ attempts' = attempts + 1
    /\ pc' = "scan"
    /\ UNCHANGED <<overflow_checks, config, countdown, now, elapsed_at_check,
                   raw_samples, intervals, max_strength, signal_detected, result,
                   files, acquired, window_maxes, device_failed, mvars>>

\* HackRfOne::new().expect("Failed to open HackRF One") panics.
OpenRadioFails ==
    /\ pc = "open"
    /\ attempts' = attempts + 1
    /\ device_failed' = TRUE
    /\ pc' = OnDeviceError
    /\ UNCHANGED <<overflow_checks, config, countdown, now, elapsed_at_check,
                   raw_samples, intervals, max_strength, signal_detected, result,
                   files, acquired, window_maxes, mvars>>

\* scan_freq(radio, frequency, sample_rate, 1 s) returns the samples.
ScanFreq ==
    /\ pc = "scan"
    /\ \E o \in ScanFreqOutcomes(WindowSecs) :
          /\ raw_samples' = o.samples
          /\ now' = now + o.took
    /\ acquired' = acquired + 1
    /\ pc' = "detect"
    /\ UNCHANGED <<overflow_checks, config, countdown, elapsed_at_check, intervals,
                   max_strength, signal_detected, result, files, attempts,
                   window_maxes, device_failed, mvars>>

\* An expect() inside scan_freq panics: a register write, into_rx_mode or rx().
ScanFreqFails ==
    /\ pc = "scan"
    /\ device_failed' = TRUE
    /\ pc' = OnDeviceError
    /\ UNCHANGED <<overflow_checks, config, countdown, now, elapsed_at_check,
                   raw_samples, intervals, max_strength, signal_detected, result,
                   files, attempts, acquired, window_maxes, mvars>>

\* analyze_samples, max_by and the threshold test of one window.
DetectWindow ==
    /\ pc = "detect"
    /\ LET wmax == MaxBy(AnalyzeSamples(raw_samples))
           acc  == WindowUpdate([signal_detected |-> signal_detected,
                                 max_strength    |-> max_strength,
                                 intervals       |-> intervals],
                                wmax, AsSecs(now))
       IN  /\ signal_detected' = acc.signal_detected
           /\ max_strength' = acc.max_strength
           /\ intervals' = acc.intervals
           /\ window_maxes' = Append(window_maxes, wmax)
    /\ pc' = "while"
    /\ UNCHANGED <<overflow_checks, config, countdown, now, elapsed_at_check,
                   raw_samples, result, files, attempts, acquired, device_failed,
                   mvars>>

\* After the loop: merge_intervals, durations_str and the SignalData.
AssembleResult ==
    /\ pc = "merge"
    /\ \E r \in MergeIntervals(intervals, overflow_checks) :
          IF r.panicked
          THEN /\ pc' = "panicked"
               /\ result' = result
          ELSE /\ pc' = "write"
               /\ result' = Some(ScheduledResult(signal_detected, max_strength, r.merged))
    /\ UNCHANGED <<overflow_checks, config, countdown, now, elapsed_at_check,
                   raw_samples, intervals, max_strength, signal_detected, files,
                   attempts, acquired, window_maxes, device_failed, mvars>>

\* File::create("zwave_scheduledata.json")? and write_all(..)? succeed.
WriteScheduled ==
    /\ pc = "write"
    /\ files' = [files EXCEPT !.scheduled = Written(Unwrap(result))]
    /\ pc' = "done"
    /\ UNCHANGED <<overflow_checks, config, countdown, now, elapsed_at_check,
                   raw_samples, intervals, max_strength, signal_detected, result,
                   attempts, acquired, window_maxes, device_failed, mvars>>

\* File::create or write_all returns Err: the function returns it.
WriteScheduledFails ==
    /\ pc = "write"
    /\ \/ files' = files
       \/ files' = [files EXCEPT !.scheduled = Created]
    /\ pc' = "error"
    /\ UNCHANGED <<overflow_checks, config, countdown, now, elapsed_at_check,
                   raw_samples, intervals, max_strength, signal_detected, result,
                   attempts, acquired, window_maxes, device_failed, mvars>>

(* ------------------------------ instant scan --------------------------- *)

\* HackRfOne::new() succeeds.
InstantOpen ==
    /\ pc = "i_open"
    /\ attempts' = attempts + 1
    /\ pc' = "i_scan"
    /\ UNCHANGED <<overflow_checks, config, countdown, now, elapsed_at_check,
                   raw_samples, intervals, max_strength, signal_detected, result,
                   files, acquired, window_maxes, device_failed, mvars>>

\* HackRfOne::new().expect(..) panics.
InstantOpenFails ==
    /\ pc = "i_open"
    /\ attempts' = attempts + 1
    /\ device_failed' = TRUE
    /\ pc' = OnDeviceError
    /\ UNCHANGED <<overflow_checks, config, countdown, now, elapsed_at_check,
                   raw_samples, intervals, max_strength, signal_detected, result,
                   files, acquired, window_maxes, mvars>>

\* scan_freq(radio, frequency, sample_rate, 5 s) returns the samples.
InstantScan ==
    /\ pc = "i_scan"
    /\ \E o \in ScanFreqOutcomes(InstantSecs) :
          /\ raw_samples' = o.samples
          /\ now' = now + o.took
    /\ acquired' = acquired + 1
    /\ pc' = "i_result"
    /\ UNCHANGED <<overflow_checks, config, countdown, elapsed_at_check, intervals,
                   max_strength, signal_detected, result, files, attempts,
                   window_maxes, device_failed, mvars>>

\* An expect() inside scan_freq panics.
InstantScanFails ==
    /\ pc = "i_scan"
    /\ device_failed' = TRUE
    /\ pc' = OnDeviceError
    /\ UNCHANGED <<overflow_checks, config, countdown, now, elapsed_at_check,
                   raw_samples, intervals, max_strength, signal_detected, result,
                   files, attempts, acquired, window_maxes, mvars>>

\* analyze_samples, max_by over the batch and the SignalData.
InstantResult ==
    /\ pc = "i_result"
    /\ LET bmax == MaxBy(AnalyzeSamples(raw_samples))
       IN  /\ result' = Some(InstantResultOf(bmax))
           /\ window_maxes' = Append(window_maxes, bmax)
    /\ pc' = "i_write"
    /\ UNCHANGED <<overflow_checks, config, countdown, now, elapsed_at_check,
                   raw_samples, intervals, max_strength, signal_detected, files,
                   attempts, acquired, device_failed, mvars>>

\* File::create("zwave_instantdata.json") and write_all succeed; Ok(true).
WriteInstant ==
    /\ pc = "i_write"
    /\ files' = [files EXCEPT !.instant = Written(Unwrap(result))]
    /\ pc' = "done"
    /\ UNCHANGED <<overflow_checks, config, countdown, now, elapsed_at_check,
                   raw_samples, intervals, max_strength, signal_detected, result,
                   attempts, acquired, window_maxes, device_failed, mvars>>

\* File::create(..).expect or write_all(..).expect panics.
WriteInstantFails ==
    /\ pc = "i_write"
    /\ \/ files' = files
       \/ files' = [files EXCEPT !.instant = Created]
    /\ pc' = "panicked"
    /\ UNCHANGED <<overflow_checks, config, countdown, now, elapsed_at_check,
                   raw_samples, intervals, max_strength, signal_detected, result,
                   attempts, acquired, window_maxes, device_failed, mvars>>

Next ==
    \/ LoadConfig
    \/ LoadConfigFails
    \/ CountdownSleep
    \/ StartScan
    \/ WhileCheck
    \/ IfBreak
    \/ OpenRadio
    \/ OpenRadioFails
    \/ ScanFreq
    \/ ScanFreqFails
    \/ DetectWindow
    \/ AssembleResult
    \/ WriteScheduled
    \/ WriteScheduledFails
    \/ InstantOpen
    \/ InstantOpenFails
    \/ InstantScan
    \/ InstantScanFails
    \/ InstantResult
    \/ WriteInstant
    \/ WriteInstantFails

Spec == Init /\ [][Next]_vars

\* The run is one thread that never stops by itself: a step that can be
\* taken is taken.
FairSpec == Spec /\ WF_vars(Next)

(* --------------------- merge_intervals run on its own ------------------ *)

\* All argument lists of length at most MaxLen.
ArgLists == UNION { [1..n -> IntervalVals] : n \in 0..MaxLen }

MergeInit ==
    /\ overflow_checks \in BOOLEAN
    /\ pc = "merge_only"
    /\ ScanIdle
    /\ input \in ArgLists
    /\ intervals_arg = input
    /\ mpc = "entry"
    /\ merged = <<>>
    /\ idx = 0
    /\ pass = 1
    /\ out1 = <<>>

\* if intervals.is_empty() { return Vec::new(); }
MergeEmpty ==
    /\ mpc = "entry"
    /\ intervals_arg = <<>>
    /\ merged' = <<>>
    /\ mpc' = "returned"
    /\ UNCHANGED <<overflow_checks, svars, intervals_arg, idx, pass, input, out1>>

\* intervals.sort_unstable_by(..); let mut merged = vec![intervals[0]];
MergeSort ==
    /\ mpc = "entry"
    /\ intervals_arg # <<>>
    /\ \E s \in SortUnstableByStart(intervals_arg) :
          /\ intervals_arg' = s
          /\ merged' = <<s[1]>>
    /\ idx' = 2
    /\ mpc' = "loop"
    /\ UNCHANGED <<overflow_checks, svars, pass, input, out1>>

\* One iteration of the for loop.
MergeIterate ==
    /\ mpc = "loop"
    /\ idx <= Len(intervals_arg)
    /\ LET r == LoopBody(merged, intervals_arg[idx], overflow_checks)
       IN  /\ merged' = r.merged
           /\ mpc' = IF r.panicked THEN "panicked" ELSE "loop"
           /\ idx' = IF r.panicked THEN idx ELSE idx + 1
    /\ UNCHANGED <<overflow_checks, svars, intervals_arg, pass, input, out1>>

\* The loop is over: `merged` is returned.
MergeReturn ==
    /\ mpc = "loop"
    /\ idx > Len(intervals_arg)
    /\ mpc' = "returned"
    /\ UNCHANGED <<overflow_checks, svars, intervals_arg, merged, idx, pass, input, out1>>

\* The returned vector is handed to merge_intervals once more.
MergeAgain ==
    /\ mpc = "returned"
    /\ pass = 1
    /\ out1' = merged
    /\ intervals_arg' = merged
    /\ merged' = <<>>
    /\ idx' = 0
    /\ pass' = 2
    /\ mpc' = "entry"
    /\ UNCHANGED <<overflow_checks, svars, input>>

MergeNext ==
    \/ MergeEmpty
    \/ MergeSort
    \/ MergeIterate
    \/ MergeReturn
    \/ MergeAgain

SpecMerge == MergeInit /\ [][MergeNext]_vars

(* ------------------------- properties of the scan --------------------- *)

\* The run has ended: normally, by a panic, or by an Err returned from main.
Ended == pc \in {"done", "panicked", "error"}

\* scanMax = max(scanMax, windowMax) over the windows ws, from 0.0.
RECURSIVE MaxOverWindows(_)
MaxOverWindows(ws) ==
    IF ws = <<>> THEN 0
    ELSE LET rest == MaxOverWindows(SubSeq(ws, 1, Len(ws) - 1))
             w    == ws[Len(ws)]
         IN  IF IsSome(w) THEN MaxF64(rest, Unwrap(w)) ELSE rest

\* C4: the running maximum takes in every window, detected or not, so the
\* max_signal_strength of a scheduled scan's result is the largest window
\* maximum of the scan.
C4_MaxOverAllWindows ==
    (pc = "done" /\ ~config.instant_scan) =>
        Unwrap(result).max_signal_strength = MaxOverWindows(window_maxes)

\* C5: in a scheduled scan of D seconds an acquisition is issued only when
\* the elapsed time e read by the break test has e + 1 s <= D, there are never
\* more than D acquisitions (none for D = 0), and the run always ends.
C5_LoopBound ==
    /\ [](~config.instant_scan =>
            /\ attempts <= config.scan_duration
            /\ acquired <= config.scan_duration
            /\ pc \in {"open", "scan"} =>
                  elapsed_at_check + WindowSecs * TicksPerSec
                      <= config.scan_duration * TicksPerSec)
    /\ <>Ended

\* C5's case: the loop left by the break, after at least one acquisition and
\* with less than one second of the budget remaining.
C5_Witness ==
    /\ pc = "merge"
    /\ ~config.instant_scan
    /\ acquired >= 1
    /\ acquired < config.scan_duration
    /\ now < config.scan_duration * TicksPerSec
    /\ elapsed_at_check = now

\* C6: an acquisition that returned no samples is never a detection: in the
\* scheduled scan its window leaves signal_detected, the raw interval list and
\* the running maximum as they were; in the instant scan the result reports
\* no detection and no strength.
C6_EmptyNeverDetected ==
    [][ /\ (pc = "detect" /\ raw_samples = <<>>) =>
              /\ signal_detected' = signal_detected
              /\ intervals' = intervals
              /\ max_strength' = max_strength
        /\ (pc = "i_result" /\ raw_samples = <<>>) =>
              /\ ~Unwrap(result').is_signal_detected
              /\ Unwrap(result').max_signal_strength = 0 ]_vars

\* C6's case: a scheduled scan has just analysed an empty window, after a
\* window that did hold samples.
C6_Witness ==
    /\ pc = "while"
    /\ Len(window_maxes) >= 2
    /\ window_maxes[Len(window_maxes)] = None
    /\ IsSome(window_maxes[1])

\* C7: a failure to open or configure the radio or to receive samples ends
\* the run at once, with no further attempt and no result file; a result file
\* exists only when every acquisition attempted by the run has returned.
C7_DeviceFailureAborts ==
    /\ device_failed =>
          /\ pc = "panicked"
          /\ attempts = acquired + 1
          /\ files.instant = Absent /\ files.scheduled = Absent
    /\ (files.instant # Absent \/ files.scheduled # Absent) =>
          /\ ~device_failed
          /\ attempts = acquired
          /\ Ended

\* C7's case: the radio fails in a later window of a scheduled scan, after a
\* window was acquired and analysed.
C7_Witness ==
    /\ device_failed
    /\ ~config.instant_scan
    /\ acquired >= 1
    /\ Len(window_maxes) >= 1

\* C9: no byte has a strength above the threshold, so no run ever detects:
\* the flag stays false, the raw interval list empty and the running maximum
\* 0; a scheduled result has is_signal_detected false, an empty
\* zwave_durations and max_signal_strength 0, an instant result has
\* is_signal_detected false.
C9_NeverDetects ==
    /\ \A s \in 0..MaxSample : ~Detected(SampleStrength(s))
    /\ ~signal_detected
    /\ intervals = <<>>
    /\ max_strength = 0
    /\ IsSome(result) => ~Unwrap(result).is_signal_detected
    /\ (IsSome(result) /\ ~config.instant_scan) =>
          /\ Unwrap(result).zwave_durations = ""
          /\ Unwrap(result).max_signal_strength = 0

\* C9's case: a scheduled scan has ended whose windows, two at least, all
\* held the largest byte.
C9_Witness ==
    /\ pc = "done"
    /\ ~config.instant_scan
    /\ Len(window_maxes) >= 2
    /\ \A i \in 1..Len(window_maxes) : window_maxes[i] = Some(SampleStrength(MaxSample))

(* --------------------- properties of merge_intervals ------------------- *)

\* The first call has returned merge(x).
FirstReturned == mpc = "returned" /\ pass = 1

\* The second call has returned merge(merge(x)).
SecondReturned == mpc = "returned" /\ pass = 2

\* Adjacent intervals of s lie more than GAP apart (in the integers).
Separated(s) == \A i \in 1..(Len(s) - 1) : s[i + 1][1] > s[i][2] + GAP

\* C1: whatever the argument list and its order, the list merge_intervals
\* returns is ascending by start and each interval starts more than GAP after
\* the end of the one before it.
C1_SortedAndSeparated ==
    FirstReturned => SortedByStart(merged) /\ Separated(merged)

\* C2: merge(merge(x)) = merge(x) for every list x: both calls return, and
\* the second returns the list the first returned.
C2_Idempotent ==
    /\ mpc # "panicked"
    /\ SecondReturned => merged = out1

\* No end of x is within GAP of the largest u64.
NoOverflow(x) == \A i \in 1..Len(x) : ~AddOverflows(x[i][2], GAP)

\* C1 and C2 away from the overflow: for a list x none of whose ends is
\* within GAP of the largest u64, no call panics, the list returned is
\* ascending and separated, and the second call returns it unchanged.
MergeSoundWithoutOverflow ==
    NoOverflow(input) =>
        /\ mpc # "panicked"
        /\ FirstReturned => SortedByStart(merged) /\ Separated(merged)
        /\ SecondReturned => merged = out1

\* The lists the contract accepts: start <= end for every interval (the
\* DetectionInterval invariant), with end + GAP representable in u64.
Contract(x) == NoOverflow(x) /\ \A i \in 1..Len(x) : x[i][1] <= x[i][2]

\* x arranged ascending by (start, end): the one arrangement that depends on
\* nothing but which intervals x holds.
Canonical(x) ==
    CHOOSE s \in Rearrangements(x) :
        \A i \in 1..(Len(s) - 1) :
            \/ s[i][1] < s[i + 1][1]
            \/ s[i][1] = s[i + 1][1] /\ s[i][2] <= s[i + 1][2]

Inside(iv, out) == out[1] <= iv[1] /\ iv[2] <= out[2]

\* C10: for a non-empty list with start <= end throughout and no overflow of
\* end + GAP, every input interval lies inside exactly one output interval,
\* every output interval has start <= end, and every output start (end) is
\* the start (end) of some input interval.
C10_NoDetectionLost ==
    (FirstReturned /\ input # <<>> /\ Contract(input)) =>
        /\ \A i \in 1..Len(input) :
              Cardinality({ j \in 1..Len(merged) : Inside(input[i], merged[j]) }) = 1
        /\ \A j \in 1..Len(merged) :
              /\ merged[j][1] <= merged[j][2]
              /\ \E i \in 1..Len(input) : input[i][1] = merged[j][1]
              /\ \E i \in 1..Len(input) : input[i][2] = merged[j][2]

\* C10's case: three accepted intervals, two of them merged into one whose
\* end comes from an interval that does not supply its start.
C10_Witness ==
    /\ FirstReturned
    /\ Contract(input)
    /\ Len(input) >= 3
    /\ Len(merged) = 2
    /\ \E j \in 1..2 : \A i \in 1..Len(input) :
          input[i][1] = merged[j][1] => input[i][2] # merged[j][2]

====
